---------------------------- MODULE Spec2Model ----------------------------
(***************************************************************************)
(* Model of the Azure retail prices exporter:                              *)
(*   api/azureapi.py  get_price_data  (paginated fetch, cache, retries)    *)
(*   api/azureapi.py  get_prices      (savingsPlan normalisation)          *)
(*   api/azureapi.py  calculate_fx_rates  (rates from two price lists)     *)
(*   api/flatten.py   flatten_prices  (long-to-wide pivot)                 *)
(*                                                                         *)
(* Six specifications share the module:                                    *)
(*   Spec          one get_price_data call against a server that may       *)
(*                 answer anything, starting from a cache file left by     *)
(*                 earlier runs                                            *)
(*   SpecCache     get_price_data calls one after the other on one cache   *)
(*                 file                                                    *)
(*   SpecProgress  one get_price_data call whose progress counter may fail *)
(*   SpecNorm      the normalisation loop of get_prices                    *)
(*   SpecFlat      flatten_prices on the frame get_prices builds           *)
(*   SpecFx        calculate_fx_rates, get_prices giving any outcome       *)
(***************************************************************************)
EXTENDS Integers, Sequences, FiniteSets, TLC

VARIABLES
    \* ---- get_price_data ----
    pc,               \* position in get_price_data
    currency_code,    \* argument
    results_filter,   \* argument
    max_pages,        \* argument
    next_page_link,   \* URL of the next page, or None
    page_counter,     \* pages requested so far
    sku_list,         \* accumulated items
    counter,          \* the enlighten progress counter, or None
    counter_count,    \* how often counter.update() ran
    response,         \* the response session.get returned for the current page
    retry_total,      \* urllib3 Retry.total left for the current request
    failures,         \* retryable responses received for the current request
    seen,             \* the retryable statuses received for the current request
    err,              \* the exception that left get_price_data, or "none"
    result,           \* the returned list, or NoResult
    requests,         \* URLs passed to session.get in this call, in order
    net,              \* requests that went over the network in this call:
                      \* url and day, in order
    pages,            \* the parsed result_json of each page of this call
    pagelog,          \* per 200 response of this call: url, cache hit, body
    cache,            \* the requests_cache store: url -> entry
    now,              \* the clock, in days
    prev,             \* the earlier calls on this cache file, oldest first
    \* ---- get_prices ----
    npc,              \* position in get_prices
    input_records,    \* what get_price_data returned
    idx,              \* index of the next input record
    output_records,   \* the normalised records
    output_df,        \* the data frame built from them
    emitted,          \* per input record, how many records it produced
    \* ---- flatten_prices ----
    fpc,              \* position in flatten_prices
    export_df,        \* the caller's frame (mutated in place)
    original_df,      \* the caller's frame as it was passed in
    parts,            \* the locals consumption_df, devtest_df and
                      \* reservations_pivot_df
    flat,             \* the returned frame, or the exception raised
    \* ---- calculate_fx_rates ----
    fxpc,             \* position in calculate_fx_rates
    base_currency,    \* argument
    target_arg,       \* argument target_currencies: a list, or none given
    target_currencies,\* the list the loop runs over
    base_df,          \* the base currency's frame, with its matchKey
    ti,               \* index of the next target currency
    fx_results,       \* the entries appended so far
    fx_df,            \* the returned frame, or the exception raised
    fetches           \* the get_prices calls made, in order, and what each
                      \* one gave

fetchVars == <<pc, currency_code, results_filter, max_pages, next_page_link,
               page_counter, sku_list, counter, counter_count, response,
               retry_total, failures, seen, err, result, requests, net, pages,
               pagelog, cache, now, prev>>
normVars == <<npc, input_records, idx, output_records, output_df, emitted>>
flatVars == <<fpc, export_df, original_df, parts, flat>>
fxVars == <<fxpc, base_currency, target_arg, target_currencies, base_df, ti,
            fx_results, fx_df, fetches>>
vars == <<fetchVars, normVars, flatVars, fxVars>>

(***************************************************************************)
(* Bounds of the model.                                                    *)
(***************************************************************************)
MaxPagesBound == 3      \* largest max_pages argument tried
MaxTime == 1            \* the clock runs from day 0 to this day
MaxItems == 2           \* longest item list given to get_prices
MaxRecords == 3         \* longest record list given to flatten_prices

(***************************************************************************)
(* Configuration (api/azureapi.py, module level).                          *)
(***************************************************************************)
API_VERSION == "2023-01-01-preview"
CACHE_EXPIRE_DAYS == 1
MAX_RETRIES == 5
RETRY_STATUS_FORCELIST == {429, 500, 502, 503, 504}

None == "None"

\* What get_price_data gave its caller: nothing yet (or an exception), or a list.
NoResult == [returned |-> FALSE, value |-> <<>>]
Returned(list) == [returned |-> TRUE, value |-> list]

\* A response body: one that json() parses into Items and NextPageLink, or
\* one that json() rejects.
Page(items, link) == [json |-> TRUE, Items |-> items, NextPageLink |-> link]
BadJson == [json |-> FALSE, Items |-> <<>>, NextPageLink |-> None]
NoResponse == [status |-> 0, body |-> BadJson]

\* Python truthiness of `next_page_link` in the loop condition.
Truthy(link) == link # None /\ link # ""

base_url == "https://prices.azure.com/api/retail/prices"

ApiUrl_NoCurrency(currency, filter) ==
    LET api_url == base_url \o "?api-version=" \o API_VERSION
    IN  IF filter # "" THEN api_url \o "&" \o filter ELSE api_url

\* The first request URL, as the f-strings of lines 84-91 build it.
ApiUrl(currency, filter) ==
    LET api_url == base_url \o "?api-version=" \o API_VERSION
                   \o "&currencyCode='" \o currency \o "''"
    IN  IF filter # "" THEN api_url \o "&" \o filter ELSE api_url


(***************************************************************************)
(* The response cache (requests_cache.CachedSession, expire_after =        *)
(* CACHE_EXPIRE_DAYS days).  An entry is keyed by the request URL and      *)
(* holds the body of a 200 response and the day it was stored.             *)
(***************************************************************************)
EmptyCache == << >>

Fresh(c, url, day) ==
    url \in DOMAIN c /\ day < c[url].created + CACHE_EXPIRE_DAYS

Store(c, url, body, day) ==
    [u \in DOMAIN c \cup {url} |->
        IF u = url THEN [body |-> body, created |-> day] ELSE c[u]]

(***************************************************************************)
(* What the driver and the server may choose.                              *)
(***************************************************************************)
Links == {"https://prices.azure.com/api/retail/prices?$skip=100",
          "https://prices.azure.com/api/retail/prices?$skip=200"}
Link1 == "https://prices.azure.com/api/retail/prices?$skip=100"
Link2 == "https://prices.azure.com/api/retail/prices?$skip=200"

Currencies == {"USD", "EUR"}
Filters == {"", "$filter=serviceName eq 'Virtual Machines'"}
Statuses == {200, 404, 429, 503}
Bodies == {Page(<<"i1">>, Link1), Page(<<"i2", "i3">>, Link2),
           Page(<<"i4">>, None), BadJson}
ErrorBodies == {Page(<<"i4">>, None), BadJson}

\* The smaller choice when calls follow each other on one cache file.
CacheArgs == {<<"USD", "">>, <<"EUR", "">>,
              <<"USD", "$filter=serviceName eq 'Virtual Machines'">>}
CacheStatuses == {200, 404, 429}
CacheBodies == {Page(<<"i1">>, Link1), Page(<<"i2", "i3">>, None), BadJson}
CacheErrorBodies == {BadJson}
CacheMaxPages == {1, 2}

\* Cache files an earlier process may have left behind.
PersistedCache ==
    Store(EmptyCache, ApiUrl("USD", ""), Page(<<"i0">>, Link1), 0)

(***************************************************************************)
(* get_price_data, lines 32-106: session, retry strategy, URL, counter.    *)
(* enlighten.Counter either is created or raises OSError/AttributeError,   *)
(* which is caught and leaves counter = None.                              *)
(***************************************************************************)
Call(Args, Ms) ==
    /\ pc = "idle"
    /\ \E a \in Args, m \in Ms :
         /\ currency_code' = a[1]
         /\ results_filter' = a[2]
         /\ max_pages' = m
         /\ next_page_link' = ApiUrl(a[1], a[2])
    /\ sku_list' = <<>>
    /\ page_counter' = 0
    /\ \/ counter' = "Counter"
       \/ counter' = None
    /\ counter_count' = 0
    /\ response' = NoResponse
    /\ retry_total' = MAX_RETRIES
    /\ failures' = 0
    /\ seen' = {}
    /\ err' = "none"
    /\ result' = NoResult
    /\ requests' = <<>>
    /\ net' = <<>>
    /\ pages' = <<>>
    /\ pagelog' = <<>>
    /\ pc' = "loop"
    /\ UNCHANGED <<cache, now, prev, normVars, flatVars, fxVars>>

LoopCondition_IgnoresLink == page_counter < max_pages

LoopCondition_OffByOne == Truthy(next_page_link) /\ page_counter <= max_pages

\* The loop condition of line 109.
LoopCondition == Truthy(next_page_link) /\ page_counter < max_pages

(***************************************************************************)
(* Lines 109-114: one more page.  session.get first looks the URL up in    *)
(* the cache; a fresh entry is returned without any network request,       *)
(* otherwise the request goes to the adapter with a new retry budget.      *)
(***************************************************************************)
StartPage ==
    /\ pc = "loop"
    /\ LoopCondition
    /\ page_counter' = page_counter + 1
    /\ requests' = Append(requests, next_page_link)
    /\ retry_total' = MAX_RETRIES
    /\ failures' = 0
    /\ seen' = {}
    /\ \/ /\ Fresh(cache, next_page_link, now)
          /\ response' = [status |-> 200, body |-> cache[next_page_link].body]
          /\ pagelog' = Append(pagelog,
                 [url |-> next_page_link, hit |-> TRUE,
                  created |-> cache[next_page_link].created, at |-> now,
                  body |-> cache[next_page_link].body])
          /\ pc' = "process"
       \/ /\ ~Fresh(cache, next_page_link, now)
          /\ response' = NoResponse
          /\ pagelog' = pagelog
          /\ pc' = "send"
    /\ UNCHANGED <<currency_code, results_filter, max_pages, next_page_link,
                   sku_list, counter, counter_count, err, result, net, pages,
                   cache, now, prev, normVars, flatVars, fxVars>>

(***************************************************************************)
(* The adapter's retry loop (Retry(total=MAX_RETRIES, status_forcelist=    *)
(* RETRY_STATUS_FORCELIST), lines 61-74).  A response whose status is in   *)
(* the forcelist uses up one retry; when none is left the adapter raises   *)
(* (requests.RetryError, a RequestException), lines 117-119 re-raise it.   *)
(***************************************************************************)
Exhausted_Early(total) == total <= 0

Exhausted_Late(total) == total < -1

\* Retry.is_exhausted, after Retry.increment took one off `total`.
Exhausted(total) == total < 0

ServerRetryable(Ss) ==
    /\ pc = "send"
    /\ \E s \in Ss \cap RETRY_STATUS_FORCELIST :
         seen' = seen \cup {s}
    /\ net' = Append(net, [url |-> next_page_link, at |-> now])
    /\ failures' = failures + 1
    /\ \/ /\ Exhausted(retry_total - 1)
          /\ err' = "RetryError"
          /\ pc' = "raised"
          /\ retry_total' = retry_total
       \/ /\ ~Exhausted(retry_total - 1)
          /\ retry_total' = retry_total - 1
          /\ UNCHANGED <<err, pc>>
    /\ UNCHANGED <<currency_code, results_filter, max_pages, next_page_link,
                   page_counter, sku_list, counter, counter_count, response,
                   result, requests, pages, pagelog, cache, now, prev,
                   normVars, flatVars, fxVars>>

\* Only a 200 response is stored in the cache (requests_cache's default).
ServerFinal(Ss, Bs, Es) ==
    /\ pc = "send"
    /\ net' = Append(net, [url |-> next_page_link, at |-> now])
    /\ \/ \E b \in Bs :
            /\ 200 \in Ss
            /\ response' = [status |-> 200, body |-> b]
            /\ cache' = Store(cache, next_page_link, b, now)
            /\ pagelog' = Append(pagelog,
                   [url |-> next_page_link, hit |-> FALSE, created |-> now,
                    at |-> now, body |-> b])
       \/ \E s \in Ss \ (RETRY_STATUS_FORCELIST \cup {200}), b \in Es :
            /\ response' = [status |-> s, body |-> b]
            /\ UNCHANGED <<cache, pagelog>>
    /\ pc' = "process"
    /\ UNCHANGED <<currency_code, results_filter, max_pages, next_page_link,
                   page_counter, sku_list, counter, counter_count, retry_total,
                   failures, seen, err, result, requests, pages, now, prev,
                   normVars, flatVars, fxVars>>

(***************************************************************************)
(* Lines 115-130: raise_for_status, json(), the Items loop, NextPageLink,  *)
(* counter.update().                                                       *)
(***************************************************************************)
RaisesForStatus_ServerErrorsOnly(r) == r.status >= 500

\* Response.raise_for_status, line 115.
RaisesForStatus(r) == r.status >= 400

ProcessResponse ==
    /\ pc = "process"
    /\ \/ /\ RaisesForStatus(response)
          /\ err' = "HTTPError"
          /\ pc' = "raised"
          /\ UNCHANGED <<sku_list, next_page_link, pages, counter_count>>
       \/ /\ ~RaisesForStatus(response)
          /\ ~response.body.json
          /\ err' = "ValueError"
          /\ pc' = "raised"
          /\ UNCHANGED <<sku_list, next_page_link, pages, counter_count>>
       \/ /\ ~RaisesForStatus(response)
          /\ response.body.json
          /\ sku_list' = sku_list \o response.body.Items
          /\ next_page_link' = response.body.NextPageLink
          /\ pages' = Append(pages, response.body)
          /\ counter_count' = IF counter # None THEN counter_count + 1
                                                ELSE counter_count
          /\ pc' = "loop"
          /\ err' = err
    /\ UNCHANGED <<currency_code, results_filter, max_pages, page_counter,
                   counter, response, retry_total, failures, seen, result,
                   requests, net, pagelog, cache, now, prev, normVars,
                   flatVars, fxVars>>

\* Lines 132-134.
Return ==
    /\ pc = "loop"
    /\ ~LoopCondition
    /\ result' = Returned(sku_list)
    /\ pc' = "done"
    /\ UNCHANGED <<currency_code, results_filter, max_pages, next_page_link,
                   page_counter, sku_list, counter, counter_count, response,
                   retry_total, failures, seen, err, requests, net, pages,
                   pagelog, cache, now, prev, normVars, flatVars, fxVars>>

(***************************************************************************)
(* The environment between and during calls: a day passes; the driver      *)
(* starts the script again on the same cache file.                         *)
(***************************************************************************)
Tick ==
    /\ pc \in {"idle", "send"}
    /\ now < MaxTime
    /\ now' = now + 1
    /\ UNCHANGED <<pc, currency_code, results_filter, max_pages,
                   next_page_link, page_counter, sku_list, counter,
                   counter_count, response, retry_total, failures, seen, err,
                   result, requests, net, pages, pagelog, cache, prev,
                   normVars, flatVars, fxVars>>

RunAgain ==
    /\ pc \in {"done", "raised"}
    /\ prev = <<>>
    /\ prev' = Append(prev, [currency |-> currency_code,
                             filter |-> results_filter,
                             log |-> pagelog])
    /\ pc' = "idle"
    /\ UNCHANGED <<currency_code, results_filter, max_pages, next_page_link,
                   page_counter, sku_list, counter, counter_count, response,
                   retry_total, failures, seen, err, result, requests, net,
                   pages, pagelog, cache, now, normVars, flatVars, fxVars>>

\* The variables of the other functions while get_price_data runs.
NoFrame == [columns |-> {}, rows |-> <<>>]

NormIdle ==
    /\ npc = "idle" /\ input_records = <<>> /\ idx = 1
    /\ output_records = <<>> /\ output_df = NoFrame /\ emitted = <<>>

NoParts == [consumption_df |-> <<>>, devtest_df |-> <<>>,
            reservations_pivot_df |-> [terms |-> {}, rows |-> << >>]]

\* What flatten_prices gave its caller: an exception, or a frame.
Raised(e) == [raised |-> e, frame |-> NoFrame]
Frame(df) == [raised |-> "none", frame |-> df]

FlatIdle ==
    /\ fpc = "idle" /\ export_df = NoFrame /\ original_df = NoFrame
    /\ parts = NoParts
    /\ flat = Frame(NoFrame)

\* The target_currencies argument: a list, or None.
NoTargets == [given |-> FALSE, list |-> <<>>]
Targets(list) == [given |-> TRUE, list |-> list]

FxIdle ==
    /\ fxpc = "idle" /\ base_currency = None /\ target_arg = NoTargets
    /\ target_currencies = <<>> /\ base_df = NoFrame /\ ti = 1
    /\ fx_results = <<>> /\ fx_df = Frame(NoFrame) /\ fetches = <<>>

FetchInit ==
    /\ pc = "idle"
    /\ currency_code = None /\ results_filter = None /\ max_pages = 0
    /\ next_page_link = None /\ page_counter = 0 /\ sku_list = <<>>
    /\ counter = None /\ counter_count = 0 /\ response = NoResponse
    /\ retry_total = MAX_RETRIES /\ failures = 0 /\ seen = {}
    /\ err = "none" /\ result = NoResult
    /\ requests = <<>> /\ net = <<>> /\ pages = <<>> /\ pagelog = <<>>
    /\ prev = <<>>

Init ==
    /\ FetchInit
    /\ \/ cache = EmptyCache /\ now = 0
       \/ cache = PersistedCache /\ now \in {0, CACHE_EXPIRE_DAYS}
    /\ NormIdle
    /\ FlatIdle
    /\ FxIdle

Next ==
    \/ Call(Currencies \X Filters, 0 .. MaxPagesBound)
    \/ StartPage
    \/ ServerRetryable(Statuses)
    \/ ServerFinal(Statuses, Bodies, ErrorBodies)
    \/ ProcessResponse
    \/ Return

Spec == Init /\ [][Next]_vars

InitCache ==
    /\ FetchInit
    /\ cache = EmptyCache
    /\ now = 0
    /\ NormIdle
    /\ FlatIdle
    /\ FxIdle

NextCache ==
    \/ Call(CacheArgs, CacheMaxPages)
    \/ StartPage
    \/ ServerRetryable(CacheStatuses)
    \/ ServerFinal(CacheStatuses, CacheBodies, CacheErrorBodies)
    \/ ProcessResponse
    \/ Return
    \/ Tick
    \/ RunAgain

SpecCache == InitCache /\ [][NextCache]_vars

(***************************************************************************)
(* get_price_data with a progress counter that fails.  Line 104 catches    *)
(* OSError and AttributeError of enlighten.Counter (Call, counter = None); *)
(* any other exception of the constructor leaves get_price_data at line    *)
(* 103, and counter.update() of line 130 stands in no try at all.          *)
(***************************************************************************)
CallCounterRaises(Args, Ms) ==
    /\ pc = "idle"
    /\ \E a \in Args, m \in Ms :
         /\ currency_code' = a[1]
         /\ results_filter' = a[2]
         /\ max_pages' = m
         /\ next_page_link' = ApiUrl(a[1], a[2])
    /\ sku_list' = <<>>
    /\ page_counter' = 0
    /\ counter' = None
    /\ counter_count' = 0
    /\ response' = NoResponse
    /\ retry_total' = MAX_RETRIES
    /\ failures' = 0
    /\ seen' = {}
    /\ err' = "CounterError"
    /\ result' = NoResult
    /\ requests' = <<>>
    /\ net' = <<>>
    /\ pages' = <<>>
    /\ pagelog' = <<>>
    /\ pc' = "raised"
    /\ UNCHANGED <<cache, now, prev, normVars, flatVars, fxVars>>

\* Lines 124-130 when counter.update() raises: the page's items and its
\* NextPageLink are taken, then the exception leaves get_price_data.
UpdateRaises ==
    /\ pc = "process"
    /\ ~RaisesForStatus(response)
    /\ response.body.json
    /\ counter # None
    /\ sku_list' = sku_list \o response.body.Items
    /\ next_page_link' = response.body.NextPageLink
    /\ pages' = Append(pages, response.body)
    /\ err' = "CounterError"
    /\ pc' = "raised"
    /\ UNCHANGED <<currency_code, results_filter, max_pages, page_counter,
                   counter, counter_count, response, retry_total, failures,
                   seen, result, requests, net, pagelog, cache, now, prev,
                   normVars, flatVars, fxVars>>

NextProgress ==
    \/ Call(CacheArgs, CacheMaxPages)
    \/ CallCounterRaises(CacheArgs, CacheMaxPages)
    \/ StartPage
    \/ ServerRetryable(CacheStatuses)
    \/ ServerFinal(CacheStatuses, CacheBodies, CacheErrorBodies)
    \/ ProcessResponse
    \/ UpdateRaises
    \/ Return

SpecProgress == InitCache /\ [][NextProgress]_vars

(***************************************************************************)
(* get_prices: the savingsPlan transformation (lines 156-178).             *)
(*                                                                         *)
(* A raw item is a dictionary: a function from its keys to their values.   *)
(* A data frame has a set of columns and a list of rows; every row has     *)
(* every column, and a cell is <<v>> for a value v or NaN for a missing    *)
(* one.                                                                    *)
(***************************************************************************)
NaN == <<>>
Cell(v) == <<v>>

Item(product, meter, type, unit, retail) ==
    [productName |-> product, skuName |-> "D2 v3", meterName |-> "D2 v3",
     meterId |-> meter, armRegionName |-> "westeurope",
     armSkuName |-> "Standard_D2_v3", tierMinimumUnits |-> 0,
     unitPrice |-> unit, retailPrice |-> retail, type |-> type,
     effectiveStartDate |-> "2023-01-01"]

WithTerm(item, term) == item @@ ("reservationTerm" :> term)
WithPlans(item, plans) == item @@ ("savingsPlan" :> plans)
Plan(unit, retail, term) ==
    [unitPrice |-> unit, retailPrice |-> retail, term |-> term]

\* The raw items the catalog may return.
RawItems ==
    {Item("P1", "m1", "Consumption", 10, 11),
     WithPlans(Item("P1", "m1", "Consumption", 10, 11), <<>>),
     WithPlans(Item("P1", "m1", "Consumption", 10, 11),
               <<Plan(7, 8, "1 Year")>>),
     WithPlans(Item("P2", "m2", "Consumption", 20, 21),
               <<Plan(7, 8, "1 Year"), Plan(5, 6, "3 Years")>>),
     WithTerm(Item("P1", "m1", "Reservation", 8760, 8760), "1 Year"),
     WithPlans(WithTerm(Item("P1", "m1", "Reservation", 8760, 8760), "5 Years"),
               <<Plan(5, 6, "3 Years")>>),
     Item("P2", "m2", "DevTestConsumption", 5, 5)}

SeqsUpTo(S, n) == UNION {[1 .. k -> S] : k \in 0 .. n}

SavingsPlanRecord_KeepsParentPrice(item, sp_year) ==
    [k \in (DOMAIN item \cup {"reservationTerm"}) \ {"savingsPlan"} |->
        CASE k = "type" -> "SavingsPlans"
          [] k = "unitPrice" -> sp_year.unitPrice
          [] k = "reservationTerm" -> sp_year.term
          [] OTHER -> item[k]]

\* Lines 164-169: the copy of the item made for one savingsPlan entry.
SavingsPlanRecord(item, sp_year) ==
    [k \in (DOMAIN item \cup {"reservationTerm"}) \ {"savingsPlan"} |->
        CASE k = "type" -> "SavingsPlans"
          [] k = "unitPrice" -> sp_year.unitPrice
          [] k = "retailPrice" -> sp_year.retailPrice
          [] k = "reservationTerm" -> sp_year.term
          [] OTHER -> item[k]]

TransformRecord_TagsPlain(input_record) ==
    IF "savingsPlan" \in DOMAIN input_record
    THEN [j \in 1 .. Len(input_record["savingsPlan"]) |->
             SavingsPlanRecord(input_record, input_record["savingsPlan"][j])]
    ELSE <<input_record @@ ("reservationTerm" :> "")>>

\* Lines 160-173: the records one input record adds to output_records.
TransformRecord(input_record) ==
    IF "savingsPlan" \in DOMAIN input_record
    THEN [j \in 1 .. Len(input_record["savingsPlan"]) |->
             SavingsPlanRecord(input_record, input_record["savingsPlan"][j])]
    ELSE <<input_record>>

\* pd.DataFrame.from_records on a list of dictionaries (line 176).
FromRecords(records) ==
    LET columns == UNION {DOMAIN records[i] : i \in 1 .. Len(records)}
    IN  [columns |-> columns,
         rows |-> [i \in 1 .. Len(records) |->
                     [c \in columns |->
                        IF c \in DOMAIN records[i] THEN Cell(records[i][c])
                                                   ELSE NaN]]]

\* One iteration of the loop of line 159.
TransformStep ==
    /\ npc = "loop"
    /\ idx <= Len(input_records)
    /\ output_records' = output_records \o TransformRecord(input_records[idx])
    /\ emitted' = Append(emitted, Len(output_records') - Len(output_records))
    /\ idx' = idx + 1
    /\ UNCHANGED <<npc, input_records, output_df, fetchVars, flatVars,
                   fxVars>>

\* Lines 176-178.
BuildFrame ==
    /\ npc = "loop"
    /\ idx > Len(input_records)
    /\ output_df' = FromRecords(output_records)
    /\ npc' = "done"
    /\ UNCHANGED <<input_records, idx, output_records, emitted, fetchVars,
                   flatVars, fxVars>>

FetchIdle ==
    /\ FetchInit
    /\ cache = EmptyCache
    /\ now = 0

InitNorm ==
    /\ FetchIdle
    /\ npc = "loop"
    /\ input_records \in SeqsUpTo(RawItems, MaxItems)
    /\ idx = 1
    /\ output_records = <<>>
    /\ output_df = NoFrame
    /\ emitted = <<>>
    /\ FlatIdle
    /\ FxIdle

NextNorm == TransformStep \/ BuildFrame

SpecNorm == InitNorm /\ [][NextNorm]_vars

(***************************************************************************)
(* flatten_prices (api/flatten.py).                                        *)
(*                                                                         *)
(* Prices are integers; an hourly price or a savings ratio is the          *)
(* fraction [num, den], not reduced.                                       *)
(***************************************************************************)
hours_in_month == 730

Rat(n, d) == [num |-> n, den |-> d]

\* The normalised records get_prices may hand over.  The ProductKey does
\* not hold the meterId: the first two share their key, as the two
\* DevTestConsumption records do.
FlatRecords ==
    {Item("P1", "m1", "Consumption", 10, 10),
     Item("P1", "m2", "Consumption", 20, 20),
     Item("P1", "m1", "Consumption", 0, 0),
     Item("P2", "m1", "Consumption", 10, 10),
     Item("P1", "m1", "DevTestConsumption", 5, 5),
     Item("P1", "m2", "DevTestConsumption", 4, 4),
     Item("P2", "m1", "DevTestConsumption", 5, 5),
     WithTerm(Item("P1", "m1", "Reservation", 8760, 8760), "1 Year"),
     WithTerm(Item("P1", "m1", "Reservation", 13140, 13140), "3 Years"),
     WithTerm(Item("P1", "m1", "SavingsPlans", 7, 7), "1 Year")}

\* df[c] = values, one per row.
WithColumn(df, c, values) ==
    [columns |-> df.columns \cup {c},
     rows |-> [i \in 1 .. Len(df.rows) |->
                 [k \in df.columns \cup {c} |->
                    IF k = c THEN values[i] ELSE df.rows[i][k]]]]

\* del df[c] for every c of cs.
DropColumns(df, cs) ==
    [columns |-> df.columns \ cs,
     rows |-> [i \in 1 .. Len(df.rows) |->
                 [k \in df.columns \ cs |-> df.rows[i][k]]]]

KeyColumns == {"productName", "skuName", "meterName", "tierMinimumUnits",
               "armRegionName"}

\* Lines 28-30: the string concatenation; a missing part gives NaN.
ProductKey(row) ==
    IF \E c \in KeyColumns : row[c] = NaN THEN NaN
    ELSE Cell(row["productName"][1] \o "\\" \o row["skuName"][1] \o "\\"
              \o row["meterName"][1] \o "\\"
              \o ToString(row["tierMinimumUnits"][1]) \o "\\"
              \o row["armRegionName"][1])

\* Lines 22-30: effectiveEndDate and ProductKey are added to the frame the
\* caller passed in.
FlattenKey ==
    /\ fpc = "start"
    /\ LET df == IF "effectiveEndDate" \notin export_df.columns
                 THEN WithColumn(export_df, "effectiveEndDate",
                                 [i \in 1 .. Len(export_df.rows) |-> NaN])
                 ELSE export_df
       IN  IF KeyColumns \subseteq df.columns
           THEN /\ export_df' = WithColumn(df, "ProductKey",
                        [i \in 1 .. Len(df.rows) |-> ProductKey(df.rows[i])])
                /\ fpc' = "keyed"
                /\ flat' = flat
           ELSE /\ export_df' = df
                /\ fpc' = "raised"
                /\ flat' = Raised("KeyError")
    /\ UNCHANGED <<original_df, parts, fetchVars, normVars, fxVars>>

\* prices_df.loc[prices_df["type"] == type], retailPrice renamed to `name`,
\* type and reservationTerm deleted (lines 40-51).
PricesOfType(df, type, name) ==
    LET rows == SelectSeq(df.rows, LAMBDA r : r["type"] = Cell(type))
    IN  [i \in 1 .. Len(rows) |->
            (name :> rows[i]["retailPrice"])
            @@ ("ProductKey" :> rows[i]["ProductKey"])]

\* Line 55.
ReservationRows(df) ==
    SelectSeq(df.rows, LAMBDA r : r["type"] = Cell("Reservation"))

\* DataFrame.pivot refuses two entries for one index and column.
PivotHasDuplicates(rows) ==
    \E i, j \in 1 .. Len(rows) :
        /\ i < j
        /\ rows[i]["ProductKey"] = rows[j]["ProductKey"]
        /\ rows[i]["reservationTerm"] = rows[j]["reservationTerm"]

\* Lines 57-60: one row per ProductKey, one column per reservationTerm
\* found among the Reservation rows, and the isReservation column.
Pivot(rows) ==
    LET keys == {rows[i]["ProductKey"] : i \in 1 .. Len(rows)}
        terms == {rows[i]["reservationTerm"][1] : i \in 1 .. Len(rows)}
        entry(k, t) == {i \in 1 .. Len(rows) :
                           /\ rows[i]["ProductKey"] = k
                           /\ rows[i]["reservationTerm"] = Cell(t)}
    IN  [terms |-> terms,
         rows |-> [k \in keys |->
                     [c \in terms \cup {"isReservation"} |->
                        IF c = "isReservation" THEN Cell(TRUE)
                        ELSE IF entry(k, c) = {} THEN NaN
                        ELSE rows[CHOOSE i \in entry(k, c) : TRUE]
                                 ["retailPrice"]]]]

PriceColumns == <<"type", "reservationTerm", "retailPrice", "unitPrice",
                  "effectiveStartDate">>

\* The columns lines 63-67 delete before one of them is missing.
RECURSIVE DeletedBeforeMissing(_, _)
DeletedBeforeMissing(columns, todo) ==
    IF todo = <<>> \/ Head(todo) \notin columns THEN {}
    ELSE {Head(todo)} \cup DeletedBeforeMissing(columns, Tail(todo))

(***************************************************************************)
(* Lines 33-67: the price tables are cut out of the frame, then the price  *)
(* columns are deleted from the frame the caller passed in.  Selecting a   *)
(* column the frame does not have raises KeyError, a second Reservation    *)
(* row for one ProductKey and term makes pivot raise ValueError.           *)
(***************************************************************************)
FlattenExtract ==
    /\ fpc = "keyed"
    /\ IF ~({"ProductKey", "retailPrice", "type", "reservationTerm"}
               \subseteq export_df.columns)
       THEN /\ flat' = Raised("KeyError")
            /\ fpc' = "raised"
            /\ UNCHANGED <<export_df, parts>>
       ELSE IF PivotHasDuplicates(ReservationRows(export_df))
       THEN /\ flat' = Raised("ValueError")
            /\ fpc' = "raised"
            /\ UNCHANGED <<export_df, parts>>
       ELSE /\ parts' =
                [consumption_df |->
                     PricesOfType(export_df, "Consumption", "Consumption"),
                 devtest_df |->
                     PricesOfType(export_df, "DevTestConsumption",
                                  "DevTestConsumption"),
                 reservations_pivot_df |-> Pivot(ReservationRows(export_df))]
            /\ export_df' = DropColumns(export_df,
                   DeletedBeforeMissing(export_df.columns, PriceColumns))
            /\ IF \A i \in 1 .. Len(PriceColumns) :
                      PriceColumns[i] \in export_df.columns
               THEN fpc' = "extracted" /\ flat' = flat
               ELSE fpc' = "raised" /\ flat' = Raised("KeyError")
    /\ UNCHANGED <<original_df, fetchVars, normVars, fxVars>>

\* Line 70: drop_duplicates("ProductKey") keeps the first row of each key.
DropDuplicates(rows) ==
    LET first(i) == \A j \in 1 .. i - 1 :
                        rows[j]["ProductKey"] # rows[i]["ProductKey"]
        kept == {i \in 1 .. Len(rows) : first(i)}
        RECURSIVE pick(_)
        pick(i) == IF i > Len(rows) THEN <<>>
                   ELSE (IF i \in kept THEN <<rows[i]>> ELSE <<>>) \o pick(i + 1)
    IN  pick(1)

\* pd.merge(left, right, how="left", on="ProductKey") for a right table
\* with the one value column `name`: a left row comes out once per right
\* row of its key, and once with NaN when there is none.
RECURSIVE MergeLeft(_, _, _)
MergeLeft(left, right, name) ==
    IF left = <<>> THEN <<>>
    ELSE LET l == Head(left)
             matches == SelectSeq(right,
                            LAMBDA r : r["ProductKey"] = l["ProductKey"])
         IN  (IF matches = <<>> THEN <<l @@ (name :> NaN)>>
              ELSE [j \in 1 .. Len(matches) |->
                       l @@ (name :> matches[j][name])])
             \o MergeLeft(Tail(left), right, name)

\* The left merge with the pivot table, whose ProductKeys are unique.
MergePivot(left, pivot) ==
    [i \in 1 .. Len(left) |->
        left[i] @@
        (IF left[i]["ProductKey"] \in DOMAIN pivot.rows
         THEN pivot.rows[left[i]["ProductKey"]]
         ELSE [c \in pivot.terms \cup {"isReservation"} |-> NaN])]

HasConsumption_NotNull(row) == row["Consumption"] # NaN

\* Line 91: export_df["Consumption"] > 0, which is False for NaN.
HasConsumption(row) == row["Consumption"] # NaN /\ row["Consumption"][1] > 0

\* 1 - price / Consumption, NaN when the price is.
Savings(price, den, consumption) ==
    IF price = NaN THEN NaN
    ELSE Cell(Rat(den * consumption[1] - price[1], den * consumption[1]))

\* Lines 93-101 and 105-134 for one row: the savings of DevTestConsumption
\* and, per term, the hourly price and its savings.
TermPeriods == ("1 Year" :> 12) @@ ("3 Years" :> 36) @@ ("5 Years" :> 60)

Derive(row, columns) ==
    LET devtest == IF "DevTestConsumption" \in columns
                   THEN ("DevTestConsumption savings" :>
                            Savings(row["DevTestConsumption"], 1,
                                    row["Consumption"]))
                   ELSE ("DevTestConsumption" :> NaN)
                        @@ ("DevTestConsumption savings" :> NaN)
        term(t) ==
            IF t \in columns
            THEN (t :> IF row[t] = NaN THEN NaN
                       ELSE Cell(Rat(row[t][1],
                                     TermPeriods[t] * hours_in_month)))
                 @@ ((t \o " savings") :>
                        Savings(row[t], TermPeriods[t] * hours_in_month,
                                row["Consumption"]))
            ELSE (t :> NaN) @@ ((t \o " savings") :> NaN)
    IN  devtest @@ term("1 Year") @@ term("3 Years") @@ term("5 Years") @@ row

\* Lines 70-136.
FlattenMerge ==
    /\ fpc = "extracted"
    /\ LET base == DropDuplicates(export_df.rows)
           m1 == MergeLeft(base, parts.consumption_df, "Consumption")
           m2 == MergeLeft(m1, parts.devtest_df, "DevTestConsumption")
           m3 == MergePivot(m2, parts.reservations_pivot_df)
           columns == export_df.columns
                      \cup {"Consumption", "DevTestConsumption", "isReservation"}
                      \cup parts.reservations_pivot_df.terms
           kept == SelectSeq(m3, HasConsumption)
           rows == [i \in 1 .. Len(kept) |-> Derive(kept[i], columns)]
       IN  flat' = Frame(
               [columns |-> columns
                    \cup {"DevTestConsumption savings", "1 Year",
                          "1 Year savings", "3 Years", "3 Years savings",
                          "5 Years", "5 Years savings"},
                rows |-> rows])
    /\ fpc' = "done"
    /\ UNCHANGED <<export_df, original_df, parts, fetchVars, normVars,
                   fxVars>>

InitFlat ==
    /\ FetchIdle
    /\ NormIdle
    /\ fpc = "start"
    /\ \E records \in SeqsUpTo(FlatRecords, MaxRecords) :
         /\ export_df = FromRecords(records)
         /\ original_df = FromRecords(records)
    /\ parts = NoParts
    /\ flat = Frame(NoFrame)
    /\ FxIdle

NextFlat == FlattenKey \/ FlattenExtract \/ FlattenMerge

SpecFlat == InitFlat /\ [][NextFlat]_vars

(***************************************************************************)
(* calculate_fx_rates (api/azureapi.py, lines 181-313).                    *)
(*                                                                         *)
(* Each get_prices call either raises or returns a frame; `fetches` keeps  *)
(* the calls in order with what each gave.  An FX rate is the fraction     *)
(* [num, den] of the target price over the base price.                     *)
(***************************************************************************)
MaxTargets == 2         \* longest target_currencies list given

\* Line 206.
DefaultTargets == <<"EUR", "GBP", "JPY", "CAD", "AUD", "CHF", "CNY", "INR">>

WithoutPrice(item) == [k \in DOMAIN item \ {"retailPrice"} |-> item[k]]

\* The record lists the catalog may hold in the base currency.
BaseRecords ==
    {<<>>,
     <<Item("P1", "m1", "Consumption", 100, 100)>>,
     <<Item("P1", "m1", "Consumption", 100, 100),
       Item("P2", "m2", "Consumption", 200, 200)>>,
     <<Item("P1", "m1", "Consumption", 0, 0),
       Item("P2", "m2", "Consumption", 200, 200),
       Item("P1", "m1", "Consumption", 100, 100)>>,
     <<WithoutPrice(Item("P2", "m2", "Consumption", 200, 200)),
       Item("P1", "m1", "Consumption", 100, 100)>>}

\* The record lists it may hold in a target currency.
TargetRecords ==
    {<<>>,
     <<Item("P1", "m1", "Consumption", 85, 85)>>,
     <<Item("P2", "m2", "Consumption", 180, 180),
       Item("P1", "m1", "Consumption", 0, 0),
       Item("P1", "m1", "Consumption", 85, 85)>>,
     <<Item("P1", "m1", "Consumption", 0, 0)>>,
     <<Item("P3", "m3", "Consumption", 85, 85)>>,
     <<WithoutPrice(Item("P1", "m1", "Consumption", 85, 85))>>}

\* What get_prices may give for a currency: an exception of get_price_data,
\* or the frame of a record list.
Catalog(currency) ==
    CASE currency = "USD" ->
           {Raised("RequestException"), Raised("ValueError")}
           \cup {Frame(FromRecords(r)) : r \in BaseRecords}
      [] currency \in {"EUR", "GBP"} ->
           {Raised("RequestException"), Raised("ValueError")}
           \cup {Frame(FromRecords(r)) : r \in TargetRecords}
      [] OTHER ->
           {Raised("RequestException"),
            Frame(FromRecords(<<Item("P1", "m1", "Consumption", 85, 85)>>))}

\* The target_currencies arguments tried.
TargetArgs ==
    {NoTargets} \cup {Targets(l) : l \in SeqsUpTo({"EUR", "GBP"}, MaxTargets)}

InTry_Nothing(step) == FALSE

InTry_Everything(step) == TRUE

\* The try of line 240 (except Exception: continue, lines 305-307) holds
\* the body of the loop over the targets; the base fetch of lines 216-235
\* stands before it.
InTry(step) == step = "target"

BaseEmpty_Never(df) == FALSE

\* Line 223.
BaseEmpty(df) == Len(df.rows) = 0

\* Line 225: pd.DataFrame({"currency": [], "fxRate": []}).
EmptyFxFrame == [columns |-> {"currency", "fxRate"}, rows |-> <<>>]

MatchColumns == {"armSkuName", "armRegionName", "meterId"}

\* Series.astype(str) of one cell.
AsStr(cell) == IF cell = NaN THEN "nan" ELSE cell[1]

\* Lines 229-235 and 254-260.
MatchKey(row) ==
    Cell(AsStr(row["armSkuName"]) \o "|" \o AsStr(row["armRegionName"])
         \o "|" \o AsStr(row["meterId"]))

WithMatchKey(df) ==
    WithColumn(df, "matchKey",
               [i \in 1 .. Len(df.rows) |-> MatchKey(df.rows[i])])

\* The price columns of the merged frame: a column both frames have gets
\* the suffixes, a column only one of them has keeps its name.
MergedPrices(l, lcols, r, rcols) ==
    IF "retailPrice" \in lcols /\ "retailPrice" \in rcols
    THEN [retailPrice_base |-> l["retailPrice"],
          retailPrice_target |-> r["retailPrice"]]
    ELSE IF "retailPrice" \in lcols THEN [retailPrice |-> l["retailPrice"]]
    ELSE IF "retailPrice" \in rcols THEN [retailPrice |-> r["retailPrice"]]
    ELSE << >>

\* The rows of base_df.merge(target_df, on="matchKey", how="inner") in the
\* order of the left rows, each left row with its right matches in the
\* order of the right rows.  Of the merged columns only matchKey and the
\* prices are kept, the ones lines 270-284 read.
RECURSIVE MergeRows_ByTarget(_, _, _, _)
MergeRows_ByTarget(left, lcols, right, rcols) ==
    IF right = <<>> THEN <<>>
    ELSE LET r == Head(right)
             matches == SelectSeq(left,
                            LAMBDA l : l["matchKey"] = r["matchKey"])
         IN  [j \in 1 .. Len(matches) |->
                 ("matchKey" :> r["matchKey"])
                 @@ MergedPrices(matches[j], lcols, r, rcols)]
             \o MergeRows_ByTarget(left, lcols, Tail(right), rcols)

RECURSIVE MergeRows(_, _, _, _)
MergeRows(left, lcols, right, rcols) ==
    IF left = <<>> THEN <<>>
    ELSE LET l == Head(left)
             matches == SelectSeq(right,
                            LAMBDA r : r["matchKey"] = l["matchKey"])
         IN  [j \in 1 .. Len(matches) |->
                 ("matchKey" :> l["matchKey"])
                 @@ MergedPrices(l, lcols, matches[j], rcols)]
             \o MergeRows(Tail(left), lcols, right, rcols)

MergeInner(left, right) ==
    LET rows == MergeRows(left.rows, left.columns, right.rows, right.columns)
    IN  [columns |-> IF rows = <<>> THEN {"matchKey"} ELSE DOMAIN rows[1],
         rows |-> rows]

\* Lines 272-277: both prices > 0, which is False for NaN.
ValidPair(row) ==
    /\ row["retailPrice_base"] # NaN
    /\ row["retailPrice_target"] # NaN
    /\ row["retailPrice_base"][1] > 0
    /\ row["retailPrice_target"][1] > 0

\* What one pass through the loop body did: the exception that ended it,
\* and the entries it appended to fx_results.
Skipped(e) == [raised |-> e, entries |-> <<>>]
Appended(entry) == [raised |-> "none", entries |-> <<entry>>]

\* Lines 248-303 for the frame `got` of target_currency.
TargetBody(base, target_currency, got) ==
    IF Len(got.rows) = 0 THEN Skipped("none")
    ELSE IF ~(MatchColumns \subseteq got.columns) THEN Skipped("KeyError")
    ELSE LET merged_df == MergeInner(base, WithMatchKey(got))
         IN  IF Len(merged_df.rows) = 0 THEN Skipped("none")
             ELSE IF ~({"retailPrice_base", "retailPrice_target"}
                          \subseteq merged_df.columns)
             THEN Skipped("KeyError")
             ELSE LET valid_df == SelectSeq(merged_df.rows, ValidPair)
                  IN  IF Len(valid_df) = 0 THEN Skipped("none")
                      ELSE Appended(
                             [currency |-> target_currency,
                              fxRate |->
                                 Rat(valid_df[1]["retailPrice_target"][1],
                                     valid_df[1]["retailPrice_base"][1])])

\* Lines 204-212: the default list.
FxStart ==
    /\ fxpc = "start"
    /\ target_currencies' = IF target_arg.given THEN target_arg.list
                                                ELSE DefaultTargets
    /\ fxpc' = "base"
    /\ UNCHANGED <<base_currency, target_arg, base_df, ti, fx_results, fx_df,
                   fetches, fetchVars, normVars, flatVars>>

\* Lines 214-237: the base currency's prices, the empty check, the matchKey.
FxFetchBase ==
    /\ fxpc = "base"
    /\ \E got \in Catalog(base_currency) :
         /\ fetches' = Append(fetches, [role |-> "base",
                                        currency |-> base_currency,
                                        got |-> got])
         /\ IF got.raised # "none"
            THEN IF InTry("base")
                 THEN /\ fx_df' = Frame(EmptyFxFrame)
                      /\ fxpc' = "done"
                      /\ UNCHANGED base_df
                 ELSE /\ fx_df' = Raised(got.raised)
                      /\ fxpc' = "raised"
                      /\ UNCHANGED base_df
            ELSE IF BaseEmpty(got.frame)
            THEN /\ fx_df' = Frame(EmptyFxFrame)
                 /\ fxpc' = "done"
                 /\ UNCHANGED base_df
            ELSE IF ~(MatchColumns \subseteq got.frame.columns)
            THEN /\ fx_df' = Raised("KeyError")
                 /\ fxpc' = "raised"
                 /\ UNCHANGED base_df
            ELSE /\ base_df' = WithMatchKey(got.frame)
                 /\ fxpc' = "loop"
                 /\ UNCHANGED fx_df
    /\ fx_results' = <<>>
    /\ UNCHANGED <<base_currency, target_arg, target_currencies, ti,
                   fetchVars, normVars, flatVars>>

\* Lines 239-307: one pass through the loop.
FxTarget ==
    /\ fxpc = "loop"
    /\ ti <= Len(target_currencies)
    /\ \E got \in Catalog(target_currencies[ti]) :
         LET target_currency == target_currencies[ti]
             body == IF got.raised # "none" THEN Skipped(got.raised)
                     ELSE TargetBody(base_df, target_currency, got.frame)
         IN  /\ fetches' = Append(fetches, [role |-> "target",
                                            currency |-> target_currency,
                                            got |-> got])
             /\ IF body.raised # "none" /\ ~InTry("target")
                THEN /\ fx_df' = Raised(body.raised)
                     /\ fxpc' = "raised"
                     /\ UNCHANGED <<fx_results, ti>>
                ELSE /\ fx_results' = fx_results \o body.entries
                     /\ ti' = ti + 1
                     /\ UNCHANGED <<fxpc, fx_df>>
    /\ UNCHANGED <<base_currency, target_arg, target_currencies, base_df,
                   fetchVars, normVars, flatVars>>

\* Lines 309-313.
FxReturn ==
    /\ fxpc = "loop"
    /\ ti > Len(target_currencies)
    /\ fx_df' = Frame(FromRecords(fx_results))
    /\ fxpc' = "done"
    /\ UNCHANGED <<base_currency, target_arg, target_currencies, base_df, ti,
                   fx_results, fetches, fetchVars, normVars, flatVars>>

InitFx ==
    /\ FetchIdle
    /\ NormIdle
    /\ FlatIdle
    /\ fxpc = "start"
    /\ base_currency = "USD"
    /\ target_arg \in TargetArgs
    /\ target_currencies = <<>>
    /\ base_df = NoFrame
    /\ ti = 1
    /\ fx_results = <<>>
    /\ fx_df = Frame(NoFrame)
    /\ fetches = <<>>

NextFx == FxStart \/ FxFetchBase \/ FxTarget \/ FxReturn

SpecFx == InitFx /\ [][NextFx]_vars

(***************************************************************************)
(* Properties of get_price_data.                                           *)
(***************************************************************************)
RECURSIVE AllItems(_)
AllItems(ps) ==
    IF ps = <<>> THEN <<>> ELSE Head(ps).Items \o AllItems(Tail(ps))

LastPage == pages[Len(pages)]

\* The pages received so far end the chain: the last one has no NextPageLink.
ChainComplete == Len(pages) >= 1 /\ LastPage.NextPageLink = None

\* The tail of `list` that is as long as `items`.
EndsWith(list, items) ==
    /\ Len(list) >= Len(items)
    /\ SubSeq(list, Len(list) - Len(items) + 1, Len(list)) = items

(* C1: when pages 1..L-1 carry a NextPageLink, page L carries none and     *)
(* every request succeeds, get_price_data passes exactly L URLs to         *)
(* session.get, the first being the initial URL and request k+1 the        *)
(* NextPageLink of page k, and returns the Items of pages 1..L in order.   *)
C1_FollowsChain ==
    /\ Len(requests) \in {Len(pages), Len(pages) + 1}
    /\ \A k \in 1 .. Len(requests) :
         requests[k] = IF k = 1 THEN ApiUrl(currency_code, results_filter)
                                ELSE pages[k - 1].NextPageLink
    /\ \A k \in 1 .. Len(pages) - 1 : pages[k].NextPageLink # None
    /\ sku_list = AllItems(pages)
    /\ pc = "raised" => Len(requests) = Len(pages) + 1
    /\ (pc \in {"loop", "done"} /\ ChainComplete) =>
         /\ Len(requests) = Len(pages)
         /\ ~LoopCondition
         /\ err = "none"
    /\ pc = "done" => result = Returned(AllItems(pages))

C1_Witness ==
    /\ pc = "done"
    /\ max_pages >= 3
    /\ Len(pages) = 3
    /\ ChainComplete
    /\ pages[1].NextPageLink # pages[2].NextPageLink
    /\ Len(requests) = 3
    /\ Len(result.value) >= 3

(* C2: whatever the server answers, the number of page requests never      *)
(* exceeds max_pages; with max_pages = 1 a finished call has issued one    *)
(* request and returns the first page's items although that page may       *)
(* carry a NextPageLink.                                                   *)
C2_PageCap ==
    /\ Len(requests) = page_counter
    /\ page_counter <= max_pages
    /\ (max_pages = 1 /\ pc = "done") =>
         /\ Len(requests) = 1
         /\ Len(pages) = 1
         /\ result = Returned(pages[1].Items)

C2_Witness ==
    /\ pc = "done"
    /\ max_pages = 1
    /\ Len(requests) = 1
    /\ Truthy(next_page_link)
    /\ pages[1].NextPageLink = Link1
    /\ result = Returned(<<"i1">>)

\* The last request met only 429 responses, no more than MAX_RETRIES of
\* them, before its 200 response with a JSON body.
Recovered ==
    /\ failures \in 1 .. MAX_RETRIES
    /\ seen = {429}
    /\ response.status = 200
    /\ response.body.json

(* C3: a page request that receives one or more 429 responses, no more     *)
(* than MAX_RETRIES, and then a 200 response does not raise: the items of  *)
(* that page are appended and, when the call ends there, returned.         *)
C3_RetryThenSuccess ==
    /\ err = "RetryError" => failures > MAX_RETRIES
    /\ (pc \in {"loop", "done"} /\ page_counter >= 1 /\ Recovered) =>
         /\ err = "none"
         /\ Len(pages) = page_counter
         /\ LastPage = response.body
         /\ EndsWith(sku_list, response.body.Items)
    /\ (pc = "done" /\ page_counter >= 1 /\ Recovered) =>
         /\ result.returned
         /\ EndsWith(result.value, response.body.Items)

C3_Witness ==
    /\ pc = "done"
    /\ failures = 2
    /\ seen = {429}
    /\ response = [status |-> 200, body |-> Page(<<"i4">>, None)]
    /\ result = Returned(<<"i4">>)
    /\ Len(net) = 3

(* C4: a response with a status of the retry set is retried at most        *)
(* MAX_RETRIES times; when the attempt after the last retry fails too,     *)
(* get_price_data raises and returns no list.                              *)
C4_RetryBudget ==
    /\ failures <= MAX_RETRIES + 1
    /\ Len(net) <= page_counter * (MAX_RETRIES + 1)
    /\ seen \subseteq RETRY_STATUS_FORCELIST
    /\ response.status \notin RETRY_STATUS_FORCELIST
    /\ (pc = "send" /\ failures > 0) => failures <= MAX_RETRIES
    /\ failures = MAX_RETRIES + 1 <=> err = "RetryError"
    /\ err = "RetryError" =>
         /\ pc = "raised"
         /\ result = NoResult

C4_Witness ==
    /\ err = "RetryError"
    /\ pc = "raised"
    /\ failures = MAX_RETRIES + 1
    /\ seen = {429, 503}
    /\ Len(pages) = 1
    /\ sku_list # <<>>
    /\ result = NoResult

\* The response of the current page cannot be used: an HTTP error status
\* outside the retry set, or a body that is not JSON.
FatalResponse ==
    /\ pc = "process"
    /\ response.status \notin 200 .. 299 \/ ~response.body.json

(* C5: a non-2xx response outside the retry set, or a body that fails      *)
(* JSON parsing, makes get_price_data raise in its next step: no further   *)
(* request is issued and nothing is returned, also not the items of the    *)
(* pages before.                                                           *)
C5_FatalPropagates ==
    [][ /\ FatalResponse =>
            /\ pc' = "raised"
            /\ err' \in {"HTTPError", "ValueError"}
            /\ result' = NoResult
            /\ requests' = requests
            /\ net' = net
        /\ (pc = "raised" /\ pc' # "idle") =>
            /\ pc' = "raised"
            /\ result' = NoResult
            /\ requests' = requests
            /\ net' = net ]_vars

C5_Witness ==
    /\ pc = "raised"
    /\ err = "HTTPError"
    /\ response.status = 404
    /\ response.body.json
    /\ Len(pages) = 2
    /\ sku_list # <<>>
    /\ result = NoResult
    /\ Len(requests) = 3

(* C6: responses are cached by URL.  A call with the currency and filter   *)
(* of an earlier call, made while the earlier call's pages are not yet     *)
(* expired, gets those pages from the cache with the same body and makes   *)
(* no network request for their URLs; a first page served from the cache   *)
(* was stored by a call with the same currency and filter.                 *)
C6_CachedByUrl ==
    pc # "idle" =>
    /\ \A r \in 1 .. Len(prev) :
         /\ \A n \in 1 .. Len(net), j \in 1 .. Len(prev[r].log) :
              net[n].url = prev[r].log[j].url =>
                  net[n].at >= prev[r].log[j].created + CACHE_EXPIRE_DAYS
         /\ (prev[r].currency = currency_code
             /\ prev[r].filter = results_filter) =>
              \A i \in 1 .. Len(prev[r].log) :
                  (/\ i <= Len(pagelog)
                   /\ \A j \in 1 .. i :
                        pagelog[j].at < prev[r].log[j].created + CACHE_EXPIRE_DAYS)
                  => /\ pagelog[i].hit
                     /\ pagelog[i].url = prev[r].log[i].url
                     /\ pagelog[i].body = prev[r].log[i].body
    /\ \A i \in 1 .. Len(pagelog) :
         ~pagelog[i].hit =>
             \E n \in 1 .. Len(net) :
                 net[n].url = pagelog[i].url /\ net[n].at = pagelog[i].at
    /\ (pagelog # <<>> /\ pagelog[1].hit) =>
         /\ pagelog[1].url = ApiUrl(currency_code, results_filter)
         /\ \E r \in 1 .. Len(prev) :
              /\ prev[r].currency = currency_code
              /\ prev[r].filter = results_filter
              /\ prev[r].log # <<>>
              /\ prev[r].log[1].body = pagelog[1].body

C6_Witness ==
    /\ prev # <<>>
    /\ prev[1].currency = currency_code
    /\ prev[1].filter = results_filter
    /\ Len(prev[1].log) = 1
    /\ pc = "done"
    /\ Len(pagelog) = 2
    /\ pagelog[1].hit
    /\ pagelog[1].body = prev[1].log[1].body
    /\ ~pagelog[2].hit
    /\ Len(net) = 1
    /\ net[1].url = Link1

(***************************************************************************)
(* Properties of get_prices.                                               *)
(***************************************************************************)
RECURSIVE SumSeq(_)
SumSeq(ns) == IF ns = <<>> THEN 0 ELSE Head(ns) + SumSeq(Tail(ns))

\* Where the records of input record i start in output_records, less one.
Offset(i) == SumSeq(SubSeq(emitted, 1, i - 1))

HasPlans(item) == "savingsPlan" \in DOMAIN item

\* The number of records the claim expects of a list of raw items.
RECURSIVE ExpectedCount(_)
ExpectedCount(items) ==
    IF items = <<>> THEN 0
    ELSE (IF HasPlans(Head(items)) THEN Len(Head(items)["savingsPlan"]) ELSE 1)
         + ExpectedCount(Tail(items))

PriceFields == {"type", "unitPrice", "retailPrice", "reservationTerm"}

\* Row `row` of a frame with columns `columns` holds exactly record `r`.
RowHolds(columns, row, r) ==
    /\ DOMAIN r \subseteq columns
    /\ \A c \in columns :
         row[c] = IF c \in DOMAIN r THEN Cell(r[c]) ELSE NaN

(* C7: an item with a savingsPlan list of length N yields exactly N        *)
(* records (none when the list is empty); each has type "SavingsPlans",    *)
(* unitPrice and retailPrice of its own entry, reservationTerm equal to    *)
(* the entry's term, every other field of the parent item, and no          *)
(* savingsPlan field.                                                      *)
C7_SavingsPlanExpansion ==
    /\ Len(emitted) = idx - 1
    /\ \A i \in 1 .. Len(emitted) :
         LET item == input_records[i] IN
         HasPlans(item) =>
           LET plans == item["savingsPlan"] IN
           /\ emitted[i] = Len(plans)
           /\ Offset(i) + Len(plans) <= Len(output_records)
           /\ \A j \in 1 .. Len(plans) :
                LET r == output_records[Offset(i) + j] IN
                /\ DOMAIN r = (DOMAIN item \cup {"reservationTerm"})
                                 \ {"savingsPlan"}
                /\ r["type"] = "SavingsPlans"
                /\ r["unitPrice"] = plans[j].unitPrice
                /\ r["retailPrice"] = plans[j].retailPrice
                /\ r["reservationTerm"] = plans[j].term
                /\ \A k \in DOMAIN r \ PriceFields : r[k] = item[k]
                /\ npc = "done" =>
                     RowHolds(output_df.columns,
                              output_df.rows[Offset(i) + j], r)
    /\ npc = "done" =>
         /\ "savingsPlan" \notin output_df.columns
         /\ Len(output_df.rows) = Len(output_records)

C7_Witness ==
    /\ npc = "done"
    /\ Len(input_records) = 2
    /\ HasPlans(input_records[1])
    /\ input_records[1]["savingsPlan"] = <<>>
    /\ HasPlans(input_records[2])
    /\ Len(input_records[2]["savingsPlan"]) = 2
    /\ emitted = <<0, 2>>
    /\ Len(output_df.rows) = 2
    /\ output_df.rows[2]["reservationTerm"] = Cell("3 Years")

(* C8: an item without a savingsPlan list yields exactly one record, the   *)
(* item itself field for field; the number of records is the sum over the  *)
(* items of the length of the nested list if present, else 1.              *)
C8_PlainItemUnchanged ==
    /\ Len(emitted) = idx - 1
    /\ Len(output_records) = ExpectedCount(SubSeq(input_records, 1, idx - 1))
    /\ \A i \in 1 .. Len(emitted) :
         LET item == input_records[i] IN
         ~HasPlans(item) =>
           /\ emitted[i] = 1
           /\ Offset(i) + 1 <= Len(output_records)
           /\ output_records[Offset(i) + 1] = item
           /\ npc = "done" =>
                RowHolds(output_df.columns, output_df.rows[Offset(i) + 1], item)
    /\ npc = "done" =>
         /\ idx = Len(input_records) + 1
         /\ Len(output_df.rows) = ExpectedCount(input_records)

C8_Witness ==
    /\ npc = "done"
    /\ Len(input_records) = 2
    /\ ~HasPlans(input_records[1])
    /\ "reservationTerm" \notin DOMAIN input_records[1]
    /\ HasPlans(input_records[2])
    /\ Len(input_records[2]["savingsPlan"]) = 2
    /\ emitted = <<1, 2>>
    /\ Len(output_df.rows) = 3
    /\ output_df.rows[1]["type"] = Cell("Consumption")
    /\ output_df.rows[1]["reservationTerm"] = NaN

(***************************************************************************)
(* Properties of flatten_prices.                                           *)
(***************************************************************************)
FlatRows == flat.frame.rows

\* The rows of the frame as it was passed in that are Consumption records
\* of ProductKey `key`.
ConsumptionRecords(key) ==
    {i \in 1 .. Len(original_df.rows) :
        /\ original_df.rows[i]["type"] = Cell("Consumption")
        /\ ProductKey(original_df.rows[i]) = key}

InputKeys ==
    {ProductKey(original_df.rows[i]) : i \in 1 .. Len(original_df.rows)}

(* C9: every row flatten_prices returns has a Consumption price that is    *)
(* present and greater than 0, the price of a Consumption record of the    *)
(* row's ProductKey; a ProductKey without a Consumption record of price    *)
(* greater than 0 has no row, whatever other prices it has.                *)
C9_ConsumptionBaseline ==
    fpc = "done" =>
      /\ flat.raised = "none"
      /\ \A i \in 1 .. Len(FlatRows) :
           /\ FlatRows[i]["Consumption"] # NaN
           /\ FlatRows[i]["Consumption"][1] > 0
           /\ \E j \in ConsumptionRecords(FlatRows[i]["ProductKey"]) :
                original_df.rows[j]["retailPrice"] = FlatRows[i]["Consumption"]
      /\ \A k \in InputKeys :
           (\A j \in ConsumptionRecords(k) :
               original_df.rows[j]["retailPrice"][1] <= 0)
           => \A i \in 1 .. Len(FlatRows) : FlatRows[i]["ProductKey"] # k

C9_Witness ==
    /\ fpc = "done"
    /\ Len(original_df.rows) = 3
    /\ Cardinality(InputKeys) = 2
    /\ \E k \in InputKeys :
         /\ ConsumptionRecords(k) = {}
         /\ \E i \in 1 .. 3 :
              /\ ProductKey(original_df.rows[i]) = k
              /\ original_df.rows[i]["type"] = Cell("DevTestConsumption")
    /\ \E k \in InputKeys :
         /\ ConsumptionRecords(k) # {}
         /\ \A j \in ConsumptionRecords(k) :
              original_df.rows[j]["retailPrice"] = Cell(0)
         /\ \E i \in 1 .. 3 :
              /\ ProductKey(original_df.rows[i]) = k
              /\ original_df.rows[i]["type"] = Cell("Reservation")
    /\ FlatRows = <<>>

(* C10: the frame flatten_prices returns has at most one row per           *)
(* ProductKey, also when several records of one price type share the key.  *)
C10_OneRowPerProductKey ==
    fpc = "done" =>
      \A i, j \in 1 .. Len(FlatRows) :
          i # j => FlatRows[i]["ProductKey"] # FlatRows[j]["ProductKey"]

\* The rows of the frame as it was passed in that are Reservation records
\* of ProductKey `key` and term `t`.
ReservationRecords(key, t) ==
    {i \in 1 .. Len(original_df.rows) :
        /\ original_df.rows[i]["type"] = Cell("Reservation")
        /\ "reservationTerm" \in original_df.columns
        /\ original_df.rows[i]["reservationTerm"] = Cell(t)
        /\ ProductKey(original_df.rows[i]) = key}

\* No record of the frame passed in has a reservation term.
NoReservationTerm ==
    /\ original_df.rows # <<>>
    /\ "reservationTerm" \notin original_df.columns

\* Row `row` holds, for term t, the hourly price of total price P and its
\* savings against the row's Consumption price.
TermHolds(row, t, P) ==
    LET den == TermPeriods[t] * hours_in_month
        consumption == row["Consumption"][1]
    IN  /\ row[t] = Cell(Rat(P, den))
        /\ row[t \o " savings"] =
               Cell(Rat(den * consumption - P, den * consumption))

(* C11: for each term T of 1 Year (12), 3 Years (36), 5 Years (60) and     *)
(* each row flatten_prices returns: when the row's product has a           *)
(* Reservation record of term T and price P, column T is P / (p * 730)     *)
(* and column "T savings" is 1 - T / Consumption; when it has none, both   *)
(* columns are present and null.  An input in which no record has a        *)
(* reservation term is flattened too, with these columns null.             *)
C11_ReservationColumns ==
    /\ NoReservationTerm => fpc # "raised"
    /\ fpc = "done" =>
         \A i \in 1 .. Len(FlatRows), t \in DOMAIN TermPeriods :
            LET row == FlatRows[i]
                recs == ReservationRecords(row["ProductKey"], t)
            IN  /\ {t, t \o " savings"} \subseteq flat.frame.columns
                /\ IF recs # {}
                   THEN \E j \in recs :
                          TermHolds(row, t,
                                    original_df.rows[j]["retailPrice"][1])
                   ELSE row[t] = NaN /\ row[t \o " savings"] = NaN

(* C12: flatten_prices leaves the frame its caller passed in as it was:    *)
(* after the call, returned or raised, the frame has the columns and rows  *)
(* it had before, with type, reservationTerm, retailPrice, unitPrice and   *)
(* effectiveStartDate and without ProductKey or effectiveEndDate.          *)
C12_InputUnchanged ==
    fpc \in {"done", "raised"} => export_df = original_df

(***************************************************************************)
(* Properties of calculate_fx_rates.                                       *)
(***************************************************************************)
\* The frame the base currency's get_prices call returned.
BaseFrame == fetches[1].got.frame

\* Row b of the base frame and row t of a target frame are one product.
SameProduct(b, t) == \A c \in MatchColumns : b[c] = t[c]

\* The row has a retail price, and it is greater than 0.
Priced(df, i) ==
    /\ "retailPrice" \in df.columns
    /\ df.rows[i]["retailPrice"] # NaN
    /\ df.rows[i]["retailPrice"][1] > 0

\* The pairs of a base record and a target record, by their indexes, that
\* are one product with both prices greater than 0.
ValidPairs(base, target) ==
    {p \in (1 .. Len(base.rows)) \X (1 .. Len(target.rows)) :
        /\ SameProduct(base.rows[p[1]], target.rows[p[2]])
        /\ Priced(base, p[1])
        /\ Priced(target, p[2])}

\* The first of them in the order of the base records.
FirstPair(base, target) ==
    CHOOSE p \in ValidPairs(base, target) :
        \A q \in ValidPairs(base, target) :
            p[1] < q[1] \/ (p[1] = q[1] /\ p[2] <= q[2])

\* The entries a target currency with the frame `target` is to add.
ExpectedEntries(base, currency, target) ==
    IF ValidPairs(base, target) = {} THEN <<>>
    ELSE LET p == FirstPair(base, target)
         IN  <<[currency |-> currency,
                fxRate |-> Rat(target.rows[p[2]]["retailPrice"][1],
                               base.rows[p[1]]["retailPrice"][1])]>>

(* C13: a target currency whose records are not empty adds one entry when  *)
(* a base record and a target record share the match key armSkuName |      *)
(* armRegionName | meterId with both retail prices present and greater     *)
(* than 0: its fxRate is the target price over the base price of the first *)
(* such pair in the order of the base records; it adds no entry when there *)
(* is no such pair.  Every fxRate of the returned frame is greater than 0. *)
C13_FirstValidPair ==
    /\ [][Len(fetches') = Len(fetches) + 1 /\ fetches # <<>> =>
            LET f == fetches'[Len(fetches')]
            IN  f.got.raised = "none" /\ f.got.frame.rows # <<>> =>
                   fx_results' = fx_results \o
                       ExpectedEntries(BaseFrame, f.currency, f.got.frame)]_vars
    /\ [](fxpc = "done" =>
            \A i \in 1 .. Len(fx_df.frame.rows) :
               /\ fx_df.frame.rows[i]["fxRate"][1].num > 0
               /\ fx_df.frame.rows[i]["fxRate"][1].den > 0)

C13_Witness ==
    /\ fxpc = "done"
    /\ target_currencies = <<"EUR">>
    /\ Len(BaseFrame.rows) = 3
    /\ BaseFrame.rows[1]["retailPrice"] = Cell(0)
    /\ Len(fetches[2].got.frame.rows) = 3
    /\ FirstPair(BaseFrame, fetches[2].got.frame) = <<2, 1>>
    /\ fx_df.frame.rows =
          <<[currency |-> Cell("EUR"), fxRate |-> Cell(Rat(180, 200))]>>

\* The list of target currencies the call was given.
InputTargets ==
    IF target_arg.given THEN target_arg.list ELSE DefaultTargets

\* The entries the get_prices calls 2 .. n are to add, in their order: a
\* call that raised adds none.
RECURSIVE ExpectedResults(_)
ExpectedResults(n) ==
    IF n <= 1 THEN <<>>
    ELSE ExpectedResults(n - 1) \o
         (IF fetches[n].got.raised # "none" THEN <<>>
          ELSE ExpectedEntries(BaseFrame, fetches[n].currency,
                               fetches[n].got.frame))

\* The base currency's call returned a frame with records.
BaseHasRecords ==
    /\ fetches # <<>>
    /\ fetches[1].got.raised = "none"
    /\ Len(BaseFrame.rows) > 0

(* C14: whatever each target currency's get_prices call gives (an error,  *)
(* no records, no valid pair, a valid pair), calculate_fx_rates fetches    *)
(* every target currency once, in the order of the list; no outcome of one *)
(* currency ends the call or keeps a later currency from being fetched;    *)
(* the returned frame holds the entries of exactly the currencies with a   *)
(* valid pair, in the order of the list.                                   *)
C14_EveryTargetInOrder ==
    BaseHasRecords =>
      /\ fxpc # "raised"
      /\ Len(fetches) <= 1 + Len(InputTargets)
      /\ \A i \in 2 .. Len(fetches) :
            /\ fetches[i].role = "target"
            /\ fetches[i].currency = InputTargets[i - 1]
      /\ fxpc = "done" =>
            /\ Len(fetches) = 1 + Len(InputTargets)
            /\ fx_df.raised = "none"
            /\ fx_df.frame.rows =
                  [i \in 1 .. Len(ExpectedResults(Len(fetches))) |->
                      [currency |->
                           Cell(ExpectedResults(Len(fetches))[i].currency),
                       fxRate |->
                           Cell(ExpectedResults(Len(fetches))[i].fxRate)]]

C14_Witness ==
    /\ fxpc = "done"
    /\ InputTargets = <<"EUR", "GBP">>
    /\ Len(fetches) = 3
    /\ fetches[2].got.raised = "RequestException"
    /\ fetches[3].got.raised = "none"
    /\ fx_df.frame.rows =
          <<[currency |-> Cell("GBP"), fxRate |-> Cell(Rat(85, 100))]>>

(* C15: calculate_fx_rates fetches the base currency once, before any      *)
(* target currency; when the base currency has no records it returns a     *)
(* frame without rows at once: it does not raise and fetches no target     *)
(* currency.                                                               *)
C15_BaseOnceAndFirst ==
    /\ fxpc \in {"loop", "done", "raised"} => fetches # <<>>
    /\ \A i \in 1 .. Len(fetches) :
          /\ fetches[i].role = "base" <=> i = 1
          /\ i = 1 => fetches[i].currency = base_currency
    /\ (/\ fetches # <<>>
        /\ fetches[1].got.raised = "none"
        /\ Len(BaseFrame.rows) = 0)
       => /\ fxpc = "done"
          /\ fx_df.raised = "none"
          /\ fx_df.frame.rows = <<>>
          /\ Len(fetches) = 1

C15_Witness ==
    /\ fxpc = "done"
    /\ InputTargets = <<"EUR", "GBP">>
    /\ Len(fetches) = 1
    /\ fetches[1].currency = "USD"
    /\ fetches[1].got = Frame(NoFrame)
    /\ fx_df = Frame(EmptyFxFrame)

(* C18: an error of the base currency's get_prices call is not caught:     *)
(* calculate_fx_rates ends with that error, returns no frame, not even an  *)
(* empty one, and fetches no target currency.                              *)
C18_BaseFailurePropagates ==
    (fetches # <<>> /\ fetches[1].got.raised # "none") =>
       /\ fxpc = "raised"
       /\ fx_df = Raised(fetches[1].got.raised)
       /\ Len(fetches) = 1

C18_Witness ==
    /\ fxpc = "raised"
    /\ InputTargets = <<"EUR", "GBP">>
    /\ fetches = <<[role |-> "base", currency |-> "USD",
                    got |-> Raised("RequestException")]>>
    /\ fx_df = Raised("RequestException")

(***************************************************************************)
(* Further properties of get_price_data.                                   *)
(***************************************************************************)
\* The first request URL as documented: the currency code between one
\* pair of single quotes, then the filter if there is one.
DocumentedUrl(currency, filter) ==
    LET url == base_url \o "?api-version=" \o API_VERSION
               \o "&currencyCode='" \o currency \o "'"
    IN  IF filter = "" THEN url ELSE url \o "&" \o filter

(* C16: the first request of get_price_data goes to                        *)
(* <base>?api-version=<version>&currencyCode='<code>', with nothing after  *)
(* the closing quote when the filter is empty and with & and the filter    *)
(* appended when it is not; every later request goes to the NextPageLink   *)
(* of the page before it, unmodified.                                      *)
C16_RequestUrls ==
    /\ requests # <<>> =>
          requests[1] = DocumentedUrl(currency_code, results_filter)
    /\ \A i \in 2 .. Len(requests) : requests[i] = pages[i - 1].NextPageLink

(* C17: the progress counter has no part in what get_price_data does:      *)
(* whether it is created or not and whatever its constructor or its        *)
(* update() does, the call raises only the error of a failed request,      *)
(* after a request that gave no page, and a call that ends without one     *)
(* has requested every page up to the end of the chain or to max_pages     *)
(* and returns the items of all of them.                                   *)
C17_ProgressAdvisory ==
    /\ err \in {"none", "RetryError", "HTTPError", "ValueError"}
    /\ pc = "raised" => Len(requests) = Len(pages) + 1
    /\ pc = "done" => /\ ~LoopCondition
                      /\ result = Returned(AllItems(pages))

=============================================================================
